---- MODULE Spec2Model ----
(***************************************************************************)
(* Model of the imguiCef browser panel: the frame buffer store             *)
(* (CefRenderHandlerImpl), the browser life-span adapter (CefClientImpl),  *)
(* and the UI thread's frame loop (Application::Run) with the texture      *)
(* upload bridge (Application::UpdateCefTexture) and RenderUI.             *)
(*                                                                         *)
(* Two threads run: the browser engine's thread, which calls OnPaint, and  *)
(* the UI thread, which runs Application::Run.  Life-span notifications    *)
(* are delivered on the UI thread from inside CefDoMessageLoopWork.        *)
(* The UI thread first runs Application::Initialize (main), step by step.  *)
(* Accesses made under m_Mutex are atomic with respect to other holders of *)
(* the mutex; IsDirty and ClearDirty take no lock and interleave freely    *)
(* with every step of OnPaint, which yields both outcomes of that race.    *)
(***************************************************************************)
EXTENDS Integers, Sequences, FiniteSets, TLC

\* ------------------------------------------------------------------ bounds
\* Number of OnPaint calls the engine makes in a run.
MaxPaints == 2
\* The viewport the application starts with (m_BrowserWidth x m_BrowserHeight,
\* 800 x 600 in the source), kept small so that the store's buffer is a short
\* sequence.
BrowserWidth0 == 2
BrowserHeight0 == 1

\* ------------------------------------------------------- program constants
BytesPerPixel == 4
NULL == 0

\* ------------------------------------------------------------------ inputs
\* The sizes (width, height) of the frames the engine paints.
Dims == { <<1, 1>>, <<2, 1>>, <<1, 2>> }
Seeds == {0, 1}
\* Byte k (0-based) of the frame of size w x h with content seed s.  The 2x1
\* frame with seed 0 is [10,20,30,40,50,60,70,80].
FrameByte(w, h, s, k) == (10 * (k + 1) + 3 * w + 5 * h + 245 + 100 * s) % 256
MakeFrame(w, h, s) ==
    [width |-> w, height |-> h,
     pixels |-> [i \in 1..(w * h * BytesPerPixel) |-> FrameByte(w, h, s, i - 1)]]
PaintFrames == { MakeFrame(d[1], d[2], s) : d \in Dims, s \in Seeds }
NoFrame == [width |-> 0, height |-> 0, pixels |-> << >>]
\* The dirtyRects argument of OnPaint: nothing, or the first pixel only.
DirtyRectLists == { << >>, << [x |-> 0, y |-> 0, width |-> 1, height |-> 1] >> }
Browsers == {"main", "popup"}
NoBrowser == "null"

\* ---------------------------------------------------------------- helpers
\* std::vector<uint8_t>::resize: keeps the prefix, zero-fills the growth.
VectorResize(buf, n) == [i \in 1..n |-> IF i <= Len(buf) THEN buf[i] ELSE 0]

\* std::memcpy(dst.data(), src, n)
Memcpy(dst, src, n) ==
    [i \in 1..Len(dst) |-> IF i <= n /\ i <= Len(src) THEN src[i] ELSE dst[i]]

VARIABLES
    \* CefRenderHandlerImpl
    m_Buffer, m_Width, m_Height, m_IsDirty, m_Mutex,
    \* engine thread inside OnPaint
    pcEngine, paintArg, paintRects, paints,
    \* CefClientImpl and the engine's browsers
    m_Browser, browserState,
    \* UI thread: position in Application::Run and UpdateCefTexture's locals
    pcUI, textureData, width, height,
    \* Application's texture members
    m_CefTextureImage, m_CefTextureView, m_CefTextureSampler, m_CefDescriptorSet,
    m_BrowserWidth, m_BrowserHeight,
    \* GPU objects: live handles, what the descriptor set samples, in-flight work
    liveImages, liveViews, nextHandle, dsView, dsImage,
    frameImage, gpuBusy, busyImage,
    \* the texture image on the GPU: its texels, its layout, and the unexecuted
    \* command of UpdateTextureImage's command buffer
    imageData, imageLayout, pendingCopy,
    \* main: the initialization steps taken and the process's exit status
    initLog, exitCode,
    \* Application::Run: the calls of the current loop iteration
    frameLog,
    \* the viewport asked of the store, and what GetViewRect last returned
    requested, viewRect,
    \* InitializeCEF's local exit_code, and the teardown steps Cleanup has taken
    exit_code, cleanupLog,
    \* device memory allocated for texture images and not freed; the extent
    \* the texture image was created with
    liveMemory, imageExtent, liveSamplers,
    \* the mouse buttons as of the last frame (ImGui's io.MouseDown), and the
    \* buttons whose press the browser was sent without a release since
    mouseDown, pressSent,
    \* RenderUI of the current frame: its input and the browser calls it made
    uiInput, sent, shown,
    \* history
    painted, dimsChanged, lastNotif, recreations, inplaceUpdates, lastSync, gpuFailed

storeVars == <<m_Buffer, m_Width, m_Height, m_IsDirty, m_Mutex>>
engineVars == <<pcEngine, paintArg, paintRects, paints, painted, dimsChanged>>
clientVars == <<m_Browser, browserState, lastNotif>>
localVars == <<textureData, width, height>>
textureVars == <<m_CefTextureImage, m_CefTextureView, m_CefTextureSampler,
                 m_CefDescriptorSet, m_BrowserWidth, m_BrowserHeight,
                 liveImages, liveViews, nextHandle, dsView, dsImage>>
gpuVars == <<frameImage, gpuBusy, busyImage, imageData, imageLayout, pendingCopy>>
uiVars == <<uiInput, sent, shown>>
syncVars == <<recreations, inplaceUpdates, lastSync, gpuFailed>>
startupVars == <<initLog, exitCode, exit_code, cleanupLog>>
memVars == <<liveMemory, imageExtent, liveSamplers>>
mouseVars == <<mouseDown, pressSent>>
viewVars == <<requested, viewRect>>
vars == <<storeVars, engineVars, clientVars, pcUI, localVars, textureVars,
          gpuVars, uiVars, syncVars, startupVars, viewVars, frameLog,
          memVars, mouseVars>>

NoDims == <<0, 0>>
NoRect == <<0, 0, 0, 0>>
NoButtons == [left |-> FALSE, right |-> FALSE]
NoInput == [kind |-> "none", what |-> "none"]

\* ------------------------------------------------- CefRenderHandlerImpl
\* A conversion loop body that copies the pixel without swapping bytes 0 and 2.
ConvertPixelNoSwap(buf, data, i) ==
    [data EXCEPT ![i + 1] = buf[i + 1],
                 ![i + 2] = buf[i + 2],
                 ![i + 3] = buf[i + 3],
                 ![i + 4] = buf[i + 4]]

\* One iteration of GetTextureData's loop, for the pixel at byte offset i
\* (0-based): data[i] = buf[i+2], data[i+1] = buf[i+1], data[i+2] = buf[i],
\* data[i+3] = buf[i+3].
ConvertPixel(buf, data, i) ==
    [data EXCEPT ![i + 1] = buf[i + 3],
                 ![i + 2] = buf[i + 2],
                 ![i + 3] = buf[i + 1],
                 ![i + 4] = buf[i + 4]]

\* for (size_t i = 0; i < m_Buffer.size(); i += 4)
RECURSIVE ConvertLoop(_, _, _)
ConvertLoop(buf, data, i) ==
    IF i >= Len(buf) THEN data
    ELSE ConvertLoop(buf, ConvertPixel(buf, data, i), i + BytesPerPixel)

\* data.resize(m_Buffer.size()) followed by the BGRA -> RGBA loop.
ConvertBGRAtoRGBA(buf, data) == ConvertLoop(buf, VectorResize(data, Len(buf)), 0)

\* CreateBrowser has run: m_RenderHandler exists and the engine has it.
HandlerCreated ==
    /\ initLog # << >> /\ initLog[Len(initLog)].step = "CreateBrowser"
    /\ pcUI # "exited"

\* A lock that excludes nobody.
MutexNeverBlocks == TRUE

\* std::lock_guard<std::mutex> takes the mutex only when nobody holds it.
MutexAvailable == m_Mutex = "free"

\* A size check that forgets the height.
DimensionsDifferWidthOnly(w, h) == w # m_Width

\* OnPaint: if (width != m_Width || height != m_Height)
DimensionsDiffer(w, h) == w # m_Width \/ h # m_Height

\* OnPaint, entry: the engine thread calls with a frame and takes the lock.
OnPaintLock(f, rects) ==
    /\ HandlerCreated
    /\ pcEngine = "idle"
    /\ paints < MaxPaints
    /\ MutexAvailable
    /\ m_Mutex' = "engine"
    /\ pcEngine' = "locked"
    /\ paintArg' = f
    /\ paintRects' = rects
    /\ paints' = paints + 1
    /\ UNCHANGED <<m_Buffer, m_Width, m_Height, m_IsDirty, painted, dimsChanged,
                   clientVars, pcUI, localVars, textureVars, gpuVars, uiVars, syncVars, startupVars, viewVars, frameLog,
                   memVars, mouseVars>>

\* OnPaint, lines 24-28: adopt the new dimensions and resize the buffer.
OnPaintResize ==
    /\ pcEngine = "locked"
    /\ IF DimensionsDiffer(paintArg.width, paintArg.height)
       THEN /\ m_Width' = paintArg.width
            /\ m_Height' = paintArg.height
            /\ m_Buffer' = VectorResize(m_Buffer,
                               paintArg.width * paintArg.height * BytesPerPixel)
       ELSE UNCHANGED <<m_Width, m_Height, m_Buffer>>
    /\ dimsChanged' = (<<paintArg.width, paintArg.height>> # <<m_Width, m_Height>>)
    /\ pcEngine' = "resized"
    /\ UNCHANGED <<m_IsDirty, m_Mutex, paintArg, paintRects, paints, painted,
                   clientVars, pcUI, localVars, textureVars, gpuVars, uiVars, syncVars, startupVars, viewVars, frameLog,
                   memVars, mouseVars>>

\* OnPaint, line 31: copy the entire frame, whatever dirtyRects says.
OnPaintCopy ==
    /\ pcEngine = "resized"
    /\ m_Buffer' = Memcpy(m_Buffer, paintArg.pixels,
                          paintArg.width * paintArg.height * BytesPerPixel)
    /\ painted' = paintArg
    /\ pcEngine' = "copied"
    /\ UNCHANGED <<m_Width, m_Height, m_IsDirty, m_Mutex, paintArg, paintRects, paints,
                   dimsChanged,
                   clientVars, pcUI, localVars, textureVars, gpuVars, uiVars, syncVars, startupVars, viewVars, frameLog,
                   memVars, mouseVars>>

\* OnPaint, line 32: m_IsDirty = true.
OnPaintSetDirty ==
    /\ pcEngine = "copied"
    /\ m_IsDirty' = TRUE
    /\ pcEngine' = "flagged"
    /\ UNCHANGED <<m_Buffer, m_Width, m_Height, m_Mutex, paintArg, paintRects, paints, painted,
                   dimsChanged, clientVars, pcUI, localVars, textureVars, gpuVars,
                   uiVars, syncVars, startupVars, viewVars, frameLog,
                   memVars, mouseVars>>

\* OnPaint, line 33: the lock_guard releases the mutex and the call returns.
OnPaintReturn ==
    /\ pcEngine = "flagged"
    /\ m_Mutex' = "free"
    /\ pcEngine' = "idle"
    /\ paintArg' = NoFrame
    /\ paintRects' = << >>
    /\ UNCHANGED <<m_Buffer, m_Width, m_Height, m_IsDirty, paints, painted,
                   dimsChanged, clientVars, pcUI, localVars, textureVars, gpuVars,
                   uiVars, syncVars, startupVars, viewVars, frameLog,
                   memVars, mouseVars>>


\* ------------------------------------------------------- CefClientImpl
\* CefClientImpl::OnAfterCreated, delivered while the UI thread pumps the
\* engine.  A popup is created through the same client by an open browser.
OnAfterCreated(b) ==
    /\ pcUI = "CefDoMessageLoopWork"
    /\ browserState[b] = "none"
    /\ b = "popup" => browserState["main"] = "open"
    /\ browserState' = [browserState EXCEPT ![b] = "open"]
    /\ m_Browser' = b
    /\ lastNotif' = <<"created", b>>
    /\ UNCHANGED <<storeVars, engineVars, pcUI, localVars, textureVars, gpuVars,
                   uiVars, syncVars, startupVars, viewVars, frameLog,
                   memVars, mouseVars>>

\* An OnBeforeClose that keeps the stored handle.
OnBeforeCloseKeepsHandle(b) ==
    /\ pcUI = "CefDoMessageLoopWork"
    /\ browserState[b] = "open"
    /\ browserState' = [browserState EXCEPT ![b] = "closed"]
    /\ lastNotif' = <<"closed", b>>
    /\ UNCHANGED <<storeVars, engineVars, m_Browser, pcUI, localVars, textureVars,
                   gpuVars, uiVars, syncVars, startupVars, viewVars, frameLog,
                   memVars, mouseVars>>

\* CefClientImpl::OnBeforeClose
OnBeforeClose(b) ==
    /\ pcUI = "CefDoMessageLoopWork"
    /\ browserState[b] = "open"
    /\ browserState' = [browserState EXCEPT ![b] = "closed"]
    /\ m_Browser' = NoBrowser
    /\ lastNotif' = <<"closed", b>>
    /\ UNCHANGED <<storeVars, engineVars, pcUI, localVars, textureVars, gpuVars,
                   uiVars, syncVars, startupVars, viewVars, frameLog,
                   memVars, mouseVars>>

\* A caller that does not look at the handle.
BrowserReadyUnchecked == TRUE

\* CefClientImpl::GetBrowser() used as a condition: the handle is not empty.
BrowserReady == m_Browser # NoBrowser

\* ------------------------------------- CefRenderHandlerImpl: the viewport
\* GetViewRect, lines 12-15: under the lock, rect = CefRect(0, 0, m_Width,
\* m_Height).  The whole body runs under the lock and touches nothing that is
\* accessed without it, so the call is one step.
GetViewRect ==
    /\ HandlerCreated
    /\ MutexAvailable
    /\ viewRect' = <<0, 0, m_Width, m_Height>>
    /\ UNCHANGED <<storeVars, engineVars, clientVars, pcUI, localVars, textureVars,
                   gpuVars, uiVars, syncVars, startupVars, requested, frameLog,
                   memVars, mouseVars>>

\* A Resize that does not touch the buffer.
ResizeKeepsBuffer(w, h) ==
    /\ HandlerCreated
    /\ MutexAvailable
    /\ m_Width' = w
    /\ m_Height' = h
    /\ requested' = <<w, h>>
    /\ UNCHANGED <<m_Buffer, m_IsDirty, m_Mutex, engineVars, clientVars, pcUI, localVars,
                   textureVars, gpuVars, uiVars, syncVars, startupVars, viewRect,
                   frameLog, memVars, mouseVars>>

\* Resize, lines 51-56: under the lock, store the size and resize the buffer.
\* The dirty flag is not touched.
Resize(w, h) ==
    /\ HandlerCreated
    /\ MutexAvailable
    /\ m_Width' = w
    /\ m_Height' = h
    /\ m_Buffer' = VectorResize(m_Buffer, w * h * BytesPerPixel)
    /\ requested' = <<w, h>>
    /\ UNCHANGED <<m_IsDirty, m_Mutex, engineVars, clientVars, pcUI, localVars,
                   textureVars, gpuVars, uiVars, syncVars, startupVars, viewRect,
                   frameLog,
                   memVars, mouseVars>>

\* ------------------------------------- main and Application::Initialize
\* The steps of Application::Initialize in the order it calls them.
InitOrder == <<"InitializeCEF", "InitializeWindow", "InitializeVulkan",
               "InitializeImGui", "CreateBrowser">>
\* What CefExecuteProcess returns: -1 in the browser process, the exit code of
\* the sub-process otherwise.
CefExecuteProcessResults == {-1, 0, 1}
\* main: return -1 when Initialize returned false.
MainFailureStatus == -1

\* An Initialize that carries on after a step returned false.
AfterStepIgnoresFailure(ok, next) == next

\* Initialize, lines 75-93: if (!Step()) return false, and main, lines
\* 430-432: if (!app.Initialize()) return -1.  Where the UI thread goes after
\* a step that returned ok.
AfterStep(ok, next) == IF ok THEN next ELSE "exited"

\* One step of Initialize that returns a bool.
InitStep(step, ok, next) ==
    /\ pcUI = step
    /\ initLog' = Append(initLog, [step |-> step,
                                   result |-> IF ok THEN "true" ELSE "false"])
    /\ pcUI' = AfterStep(ok, next)
    /\ exitCode' = IF AfterStep(ok, next) = "exited" THEN MainFailureStatus ELSE exitCode
    /\ UNCHANGED <<storeVars, engineVars, clientVars, localVars, textureVars,
                   gpuVars, uiVars, syncVars, viewVars, frameLog, cleanupLog,
                   memVars, mouseVars>>

\* A test that lets a sub-process with exit code 0 carry on.
IsSubprocessNonZero(code) == code > 0

\* InitializeCEF, line 106: if (exit_code >= 0).
IsSubprocess(code) == code >= 0

\* InitializeCEF, lines 100-142: exit_code = CefExecuteProcess(...); a
\* sub-process leaves through exit(exit_code); the browser process goes on
\* to CefInitialize, whose result is ok.
InitializeCEF(code, ok) ==
    /\ exit_code' = code
    /\ IF IsSubprocess(code)
       THEN /\ pcUI = "InitializeCEF"
            /\ initLog' = Append(initLog, [step |-> "InitializeCEF", result |-> "exit"])
            /\ pcUI' = "exited"
            /\ exitCode' = code
            /\ UNCHANGED <<storeVars, engineVars, clientVars, localVars, textureVars,
                           gpuVars, uiVars, syncVars, viewVars, frameLog, cleanupLog,
                           memVars, mouseVars>>
       ELSE InitStep("InitializeCEF", ok, "InitializeWindow")

\* InitializeWindow, lines 144-153: glfwInit and glfwCreateWindow.
InitializeWindow(ok) ==
    InitStep("InitializeWindow", ok, "InitializeVulkan") /\ UNCHANGED exit_code

\* InitializeVulkan, lines 155-158: VulkanRenderer::Initialize.
InitializeVulkan(ok) ==
    InitStep("InitializeVulkan", ok, "InitializeImGui") /\ UNCHANGED exit_code

\* InitializeImGui, lines 160-186: always returns true.
InitializeImGui ==
    InitStep("InitializeImGui", TRUE, "CreateBrowser") /\ UNCHANGED exit_code

\* CreateBrowser, lines 188-203: constructs the render handler with the
\* initial viewport (constructor, cef_client.cpp lines 7-10), the client, and
\* asks the engine for a browser.  Initialize returns true and main calls Run.
CreateBrowser ==
    /\ pcUI = "CreateBrowser"
    /\ initLog' = Append(initLog, [step |-> "CreateBrowser", result |-> "true"])
    /\ m_Width' = m_BrowserWidth
    /\ m_Height' = m_BrowserHeight
    /\ m_Buffer' = VectorResize(m_Buffer, m_BrowserWidth * m_BrowserHeight * BytesPerPixel)
    /\ m_IsDirty' = FALSE
    /\ requested' = <<m_BrowserWidth, m_BrowserHeight>>
    /\ pcUI' = "glfwPollEvents"
    /\ UNCHANGED <<m_Mutex, engineVars, clientVars, localVars, textureVars,
                   gpuVars, uiVars, syncVars, exitCode, exit_code, cleanupLog,
                   viewRect, frameLog, memVars, mouseVars>>

\* ---------------------------------------------------- Application::Run
\* Lines 357-358: the window stays open; glfwPollEvents starts an iteration.
RunLoopHead ==
    /\ pcUI = "glfwPollEvents"
    /\ frameLog' = << >>
    /\ pcUI' = "CefDoMessageLoopWork"
    /\ UNCHANGED <<storeVars, engineVars, clientVars, localVars, textureVars,
                   gpuVars, uiVars, syncVars, startupVars, viewVars,
                   memVars, mouseVars>>

\* A loop that goes from the pump straight to BeginFrame.
PumpDoneSkipsUpdate ==
    /\ pcUI = "CefDoMessageLoopWork"
    /\ frameLog' = Append(frameLog, "CefDoMessageLoopWork")
    /\ pcUI' = "BeginFrame"
    /\ UNCHANGED <<storeVars, engineVars, clientVars, localVars, textureVars,
                   gpuVars, uiVars, syncVars, startupVars, viewVars,
                   memVars, mouseVars>>

\* Line 361: CefDoMessageLoopWork returns; UpdateCefTexture is next.
PumpDone ==
    /\ pcUI = "CefDoMessageLoopWork"
    /\ frameLog' = Append(frameLog, "CefDoMessageLoopWork")
    /\ pcUI' = "IsDirty"
    /\ UNCHANGED <<storeVars, engineVars, clientVars, localVars, textureVars,
                   gpuVars, uiVars, syncVars, startupVars, viewVars,
                   memVars, mouseVars>>

\* An UpdateCefTexture that fetches the frame whatever the flag says.
UpdateCheckDirtyIgnoresFlag ==
    /\ pcUI = "IsDirty"
    /\ frameLog' = Append(frameLog, "UpdateCefTexture")
    /\ pcUI' = "GetTextureData"
    /\ UNCHANGED <<storeVars, engineVars, clientVars, localVars, textureVars,
                   gpuVars, uiVars, syncVars, startupVars, viewVars,
                   memVars, mouseVars>>

\* Line 364 and UpdateCefTexture, lines 206-208: if (!IsDirty()) return.  No
\* lock is taken.
UpdateCheckDirty ==
    /\ pcUI = "IsDirty"
    /\ frameLog' = Append(frameLog, "UpdateCefTexture")
    /\ pcUI' = IF m_IsDirty THEN "GetTextureData" ELSE "BeginFrame"
    /\ UNCHANGED <<storeVars, engineVars, clientVars, localVars, textureVars,
                   gpuVars, uiVars, syncVars, startupVars, viewVars,
                   memVars, mouseVars>>

\* GetTextureData, line 36: take the lock.
GetTextureDataLock ==
    /\ pcUI = "GetTextureData"
    /\ MutexAvailable
    /\ m_Mutex' = "ui"
    /\ pcUI' = "GetTextureDataCopy"
    /\ UNCHANGED <<m_Buffer, m_Width, m_Height, m_IsDirty, engineVars, clientVars,
                   localVars, textureVars, gpuVars, uiVars, syncVars, startupVars,
                   viewVars, frameLog,
                   memVars, mouseVars>>

\* A GetTextureData that also clears the flag.
GetTextureDataCopyClearsFlag ==
    /\ pcUI = "GetTextureDataCopy"
    /\ width' = m_Width
    /\ height' = m_Height
    /\ textureData' = ConvertBGRAtoRGBA(m_Buffer, textureData)
    /\ m_IsDirty' = FALSE
    /\ pcUI' = "GetTextureDataReturn"
    /\ UNCHANGED <<m_Buffer, m_Width, m_Height, m_Mutex, engineVars, clientVars,
                   textureVars, gpuVars, uiVars, syncVars, startupVars, viewVars,
                   frameLog,
                   memVars, mouseVars>>

\* GetTextureData, lines 38-48: read the dimensions, convert into data.
GetTextureDataCopy ==
    /\ pcUI = "GetTextureDataCopy"
    /\ width' = m_Width
    /\ height' = m_Height
    /\ textureData' = ConvertBGRAtoRGBA(m_Buffer, textureData)
    /\ pcUI' = "GetTextureDataReturn"
    /\ UNCHANGED <<storeVars, engineVars, clientVars, textureVars, gpuVars,
                   uiVars, syncVars, startupVars, viewVars, frameLog,
                   memVars, mouseVars>>

\* A GetTextureData that returns with the mutex still held.
GetTextureDataReturnKeepsLock ==
    /\ pcUI = "GetTextureDataReturn"
    /\ pcUI' = "Sync"
    /\ UNCHANGED <<storeVars, engineVars, clientVars, localVars, textureVars,
                   gpuVars, uiVars, syncVars, startupVars, viewVars, frameLog,
                   memVars, mouseVars>>

\* GetTextureData, line 49: release the lock and return.
GetTextureDataReturn ==
    /\ pcUI = "GetTextureDataReturn"
    /\ m_Mutex' = "free"
    /\ pcUI' = "Sync"
    /\ UNCHANGED <<m_Buffer, m_Width, m_Height, m_IsDirty, engineVars, clientVars,
                   localVars, textureVars, gpuVars, uiVars, syncVars, startupVars,
                   viewVars, frameLog,
                   memVars, mouseVars>>


\* --------------------------------------- Application::UpdateCefTexture
\* A test that never recreates a texture that exists.
NeedsRecreateNullOnly(w, h) == m_CefTextureImage = NULL

\* A size comparison that forgets the height.
NeedsRecreateWidthOnly(w, h) ==
    m_CefTextureImage = NULL \/ w # m_BrowserWidth

\* Line 215: create or recreate the texture if there is none or the size changed.
NeedsRecreate(w, h) ==
    m_CefTextureImage = NULL \/ w # m_BrowserWidth \/ h # m_BrowserHeight

\* Application::m_CefTextureMemory (line 55) is initialized to
\* VK_NULL_HANDLE and assigned nowhere: CreateTextureImage keeps the memory
\* it allocates in a local (vulkan_renderer.cpp line 417).
m_CefTextureMemory == NULL

\* A recreation that forgets to destroy the old object.
DestroyHandleSkipped(live, handle) == live

\* Lines 220-226: vkDestroyImageView / vkDestroyImage of a non-null handle.
DestroyHandle(live, handle) == IF handle # NULL THEN live \ {handle} ELSE live

\* Whether vkCreateImage+vkAllocateMemory, vkCreateImageView and
\* vkCreateSampler succeed.
GpuOutcomes == [image : BOOLEAN, view : BOOLEAN, sampler : BOOLEAN]
\* Every creation succeeds.
GpuSucceeds == [image |-> TRUE, view |-> TRUE, sampler |-> TRUE]

\* Lines 216-238: the recreation branch.  Nothing checks the handles that
\* CreateTextureImage, CreateImageView and CreateTextureSampler return.
\* CreateTextureImage, when it gets that far, allocates and binds device
\* memory for the image (named here by the image's handle), uploads data,
\* leaves the image in SHADER_READ_ONLY layout and ends with vkQueueWaitIdle.
\* vkFreeMemory is called with m_CefTextureMemory.
SyncRecreate(o) ==
    /\ pcUI = "Sync"
    /\ NeedsRecreate(width, height)
    /\ LET image == IF o.image THEN nextHandle + 1 ELSE NULL
           view == IF o.view THEN nextHandle + 2 ELSE NULL
           sampler == IF m_CefTextureSampler # NULL THEN m_CefTextureSampler
                      ELSE IF o.sampler THEN nextHandle + 3 ELSE NULL
       IN /\ m_BrowserWidth' = width
          /\ m_BrowserHeight' = height
          /\ liveViews' = DestroyHandle(liveViews, m_CefTextureView)
                              \cup (IF view # NULL THEN {view} ELSE {})
          /\ liveImages' = DestroyHandle(liveImages, m_CefTextureImage)
                              \cup (IF image # NULL THEN {image} ELSE {})
          /\ m_CefTextureImage' = image
          /\ m_CefTextureView' = view
          /\ m_CefTextureSampler' = sampler
          /\ m_CefDescriptorSet' = nextHandle + 4
          /\ dsView' = view
          /\ dsImage' = IF view # NULL THEN image ELSE NULL
          /\ nextHandle' = nextHandle + 4
          /\ gpuBusy' = IF o.image THEN FALSE ELSE gpuBusy
          /\ busyImage' = IF o.image THEN NULL ELSE busyImage
          /\ liveMemory' = DestroyHandle(liveMemory, m_CefTextureMemory)
                               \cup (IF image # NULL THEN {image} ELSE {})
          /\ imageExtent' = IF o.image THEN <<width, height>> ELSE NoDims
          /\ liveSamplers' = liveSamplers \cup (IF sampler # NULL THEN {sampler} ELSE {})
          /\ imageData' = IF o.image THEN textureData ELSE << >>
          /\ imageLayout' = IF o.image THEN "SHADER_READ_ONLY" ELSE "NONE"
          /\ gpuFailed' = (gpuFailed \/ image = NULL \/ view = NULL \/ sampler = NULL)
    /\ recreations' = recreations + 1
    /\ lastSync' = <<width, height>>
    /\ pcUI' = "ClearDirty"
    /\ UNCHANGED <<storeVars, engineVars, clientVars, localVars, frameImage,
                   pendingCopy, uiVars, inplaceUpdates, startupVars, viewVars,
                   frameLog, mouseVars>>

\* Lines 239-242 and UpdateTextureImage, lines 497-571: stage the data and
\* submit one command buffer: barrier to TRANSFER_DST, copy, barrier to
\* SHADER_READ_ONLY.  The staging buffer holds a copy of textureData, which
\* the waiting UI thread does not change.
SyncUpdateSubmit ==
    /\ pcUI = "Sync"
    /\ ~NeedsRecreate(width, height)
    /\ pendingCopy' = "barrierToTransfer"
    /\ pcUI' = "vkQueueWaitIdle"
    /\ UNCHANGED <<storeVars, engineVars, clientVars, localVars, textureVars,
                   frameImage, gpuBusy, busyImage, imageData, imageLayout,
                   uiVars, syncVars, startupVars, viewVars, frameLog,
                   memVars, mouseVars>>

\* UpdateTextureImage, lines 572-578: vkQueueWaitIdle returns when the queue
\* has nothing left to execute; the function returns.
SyncUpdate ==
    /\ pcUI = "vkQueueWaitIdle"
    /\ ~gpuBusy
    /\ pendingCopy = "none"
    /\ inplaceUpdates' = inplaceUpdates + 1
    /\ lastSync' = <<width, height>>
    /\ pcUI' = "ClearDirty"
    /\ UNCHANGED <<storeVars, engineVars, clientVars, localVars, textureVars,
                   gpuVars, uiVars, recreations, gpuFailed, startupVars, viewVars,
                   frameLog,
                   memVars, mouseVars>>

\* Line 244: ClearDirty(), m_IsDirty = false without the lock; the locals of
\* UpdateCefTexture go out of scope.
ClearDirty ==
    /\ pcUI = "ClearDirty"
    /\ m_IsDirty' = FALSE
    /\ textureData' = << >>
    /\ width' = 0
    /\ height' = 0
    /\ pcUI' = "BeginFrame"
    /\ UNCHANGED <<m_Buffer, m_Width, m_Height, m_Mutex, engineVars, clientVars,
                   textureVars, gpuVars, uiVars, syncVars, startupVars, viewVars,
                   frameLog,
                   memVars, mouseVars>>

\* ------------------------------------------------------ VulkanRenderer
\* BeginFrame waits for the in-flight fence of the previous submission.
BeginFrame ==
    /\ pcUI = "BeginFrame"
    /\ gpuBusy' = FALSE
    /\ busyImage' = NULL
    /\ frameImage' = NULL
    /\ frameLog' = Append(frameLog, "BeginFrame")
    /\ pcUI' = "RenderUI"
    /\ UNCHANGED <<storeVars, engineVars, clientVars, localVars, textureVars,
                   imageData, imageLayout, pendingCopy, uiVars, syncVars,
                   startupVars, viewVars,
                   memVars, mouseVars>>

\* EndFrame submits the frame's command buffer with the in-flight fence and
\* presents; it does not wait.
EndFrame ==
    /\ pcUI = "EndFrame"
    /\ gpuBusy' = TRUE
    /\ busyImage' = frameImage
    /\ frameImage' = NULL
    /\ uiInput' = NoInput
    /\ sent' = << >>
    /\ shown' = "none"
    /\ frameLog' = Append(frameLog, "EndFrame")
    /\ pcUI' = "glfwPollEvents"
    /\ UNCHANGED <<storeVars, engineVars, clientVars, localVars, textureVars,
                   imageData, imageLayout, pendingCopy, syncVars, startupVars,
                   viewVars,
                   memVars, mouseVars>>

\* The GPU finishes the submitted frame on its own.
GpuComplete ==
    /\ gpuBusy
    /\ gpuBusy' = FALSE
    /\ busyImage' = NULL
    /\ UNCHANGED <<storeVars, engineVars, clientVars, pcUI, localVars, textureVars,
                   frameImage, imageData, imageLayout, pendingCopy, uiVars,
                   syncVars, startupVars, viewVars, frameLog,
                   memVars, mouseVars>>

\* A first barrier whose source stage is the top of the pipe: it waits for
\* nothing submitted before it.
FragmentReadsDoneTopOfPipe == TRUE

\* UpdateTextureImage, line 541: the first barrier's source stage is
\* VK_PIPELINE_STAGE_FRAGMENT_SHADER_BIT, so it executes only when the
\* fragment shaders of everything submitted earlier have finished.
FragmentReadsDone == ~gpuBusy

\* The GPU executes the barrier of lines 526-542: SHADER_READ_ONLY ->
\* TRANSFER_DST.
GpuBarrierToTransfer ==
    /\ pendingCopy = "barrierToTransfer"
    /\ FragmentReadsDone
    /\ imageLayout' = "TRANSFER_DST"
    /\ pendingCopy' = "copy"
    /\ UNCHANGED <<storeVars, engineVars, clientVars, pcUI, localVars, textureVars,
                   frameImage, gpuBusy, busyImage, imageData, uiVars, syncVars,
                   startupVars, viewVars, frameLog,
                   memVars, mouseVars>>

\* The GPU executes vkCmdCopyBufferToImage, lines 544-555.
GpuCopy ==
    /\ pendingCopy = "copy"
    /\ imageData' = textureData
    /\ pendingCopy' = "barrierToShaderRead"
    /\ UNCHANGED <<storeVars, engineVars, clientVars, pcUI, localVars, textureVars,
                   frameImage, gpuBusy, busyImage, imageLayout, uiVars, syncVars,
                   startupVars, viewVars, frameLog,
                   memVars, mouseVars>>

\* The GPU executes the barrier of lines 557-563: TRANSFER_DST ->
\* SHADER_READ_ONLY.
GpuBarrierToShaderRead ==
    /\ pendingCopy = "barrierToShaderRead"
    /\ imageLayout' = "SHADER_READ_ONLY"
    /\ pendingCopy' = "none"
    /\ UNCHANGED <<storeVars, engineVars, clientVars, pcUI, localVars, textureVars,
                   frameImage, gpuBusy, busyImage, imageData, uiVars, syncVars,
                   startupVars, viewVars, frameLog,
                   memVars, mouseVars>>

\* ------------------------------------------------ Application::RenderUI
NavButtons == {"Go", "Back", "Forward", "Reload"}
MouseEvents == {"move", "leftDown", "leftUp", "rightDown", "rightUp", "wheel", "char"}
\* What the user does in one frame: nothing, a click on one navigation
\* button, or the pointer over the browser image with one mouse/key event.
UiInputs == {NoInput} \cup [kind : {"button"}, what : NavButtons]
                      \cup [kind : {"hover"}, what : MouseEvents]
\* The same frame given by the state of the pointer instead: whether it is
\* over the browser image and which buttons are down; what ImGui reports as
\* clicked and released follows from the buttons' state in the last frame.
MouseInputs == [kind : {"mouse"}, what : {"none"}, hovered : BOOLEAN,
                left : BOOLEAN, right : BOOLEAN]

\* Lines 257-274: the call each navigation button makes.
NavCall(button) ==
    CASE button = "Go" -> "LoadURL"
      [] button = "Back" -> "GoBack"
      [] button = "Forward" -> "GoForward"
      [] button = "Reload" -> "Reload"

\* Lines 315-327: the four tests in source order; a left press also gives
\* the browser the focus.
ClickCalls(leftClicked, leftReleased, rightClicked, rightReleased) ==
    (IF leftClicked THEN <<"SendMouseClickEvent(MBT_LEFT,down)", "SetFocus">> ELSE << >>)
    \o (IF leftReleased THEN <<"SendMouseClickEvent(MBT_LEFT,up)">> ELSE << >>)
    \o (IF rightClicked THEN <<"SendMouseClickEvent(MBT_RIGHT,down)">> ELSE << >>)
    \o (IF rightReleased THEN <<"SendMouseClickEvent(MBT_RIGHT,up)">> ELSE << >>)

\* Lines 312-345: the host calls made for the frame's mouse/key event, in the
\* order they are made.
InputCalls(event) ==
    <<"SendMouseMoveEvent">>
    \o ClickCalls(event = "leftDown", event = "leftUp",
                  event = "rightDown", event = "rightUp")
    \o (IF event = "wheel" THEN <<"SendMouseWheelEvent">> ELSE << >>)
    \o (IF event = "char" THEN <<"SendKeyEvent">> ELSE << >>)

\* A click test that is true in every frame in which the button is down.
MouseClickedWhileDown(before, now) == now

\* ImGui::IsMouseClicked(button): the button is down and was not in the last
\* frame.
MouseClicked(before, now) == now /\ ~before

\* ImGui::IsMouseReleased(button): the button is up and was down in the last
\* frame.
MouseReleased(before, now) == before /\ ~now

\* Lines 312-327 for a frame given by the buttons' state.
MouseCalls(before, in) ==
    <<"SendMouseMoveEvent">>
    \o ClickCalls(MouseClicked(before.left, in.left),
                  MouseReleased(before.left, in.left),
                  MouseClicked(before.right, in.right),
                  MouseReleased(before.right, in.right))

\* Line 293: ImGui::IsItemHovered() for the frame's input.
IsItemHovered(in) == in.kind = "hover" \/ (in.kind = "mouse" /\ in.hovered)

\* Whether the browser holds a button pressed after these calls.
PressedAfter(was, calls, press, release) ==
    LET made == { calls[i] : i \in DOMAIN calls }
    IN IF release \in made THEN FALSE
       ELSE IF press \in made THEN TRUE
       ELSE was

RenderUI(in) ==
    /\ pcUI = "RenderUI"
    /\ LET imageShown == m_CefDescriptorSet # NULL
           nav == IF in.kind = "button" /\ BrowserReady
                  THEN <<[call |-> NavCall(in.what), browser |-> m_Browser]>>
                  ELSE << >>
           calls == IF imageShown /\ IsItemHovered(in) /\ BrowserReady
                    THEN IF in.kind = "mouse" THEN MouseCalls(mouseDown, in)
                                              ELSE InputCalls(in.what)
                    ELSE << >>
           input == [i \in DOMAIN calls |-> [call |-> calls[i], browser |-> m_Browser]]
       IN /\ sent' = nav \o input
          /\ shown' = IF imageShown THEN "image" ELSE "placeholder"
          /\ frameImage' = IF imageShown THEN dsImage ELSE NULL
          /\ pressSent' =
                IF in.kind = "mouse"
                THEN [left |-> PressedAfter(pressSent.left, calls,
                                            "SendMouseClickEvent(MBT_LEFT,down)",
                                            "SendMouseClickEvent(MBT_LEFT,up)"),
                      right |-> PressedAfter(pressSent.right, calls,
                                             "SendMouseClickEvent(MBT_RIGHT,down)",
                                             "SendMouseClickEvent(MBT_RIGHT,up)")]
                ELSE pressSent
    /\ mouseDown' = IF in.kind = "mouse" THEN [left |-> in.left, right |-> in.right]
                    ELSE mouseDown
    /\ uiInput' = in
    /\ frameLog' = Append(frameLog, "RenderUI")
    /\ pcUI' = "EndFrame"
    /\ UNCHANGED <<storeVars, engineVars, clientVars, localVars, textureVars,
                   gpuBusy, busyImage, imageData, imageLayout, pendingCopy,
                   syncVars, startupVars, viewVars, memVars>>
\* ------------------------------------- Application::Cleanup and main's end
\* The steps of Cleanup in the order of its statements.
CleanupOrder == <<"vkDeviceWaitIdle", "DestroyTexture", "ImGuiShutdown",
                  "RendererCleanup", "DestroyWindow", "ReleaseReferences",
                  "CefShutdown">>

\* Run, line 357: glfwWindowShouldClose(m_Window) is true; Run returns and
\* main calls Cleanup.
RunLoopExit ==
    /\ pcUI = "glfwPollEvents"
    /\ pcUI' = "vkDeviceWaitIdle"
    /\ UNCHANGED <<storeVars, engineVars, clientVars, localVars, textureVars,
                   gpuVars, uiVars, syncVars, startupVars, viewVars, frameLog,
                   memVars, mouseVars>>

\* A wait that returns at once.
DeviceIdleNoWait == TRUE

\* vkDeviceWaitIdle returns when no queue of the device has work left.
DeviceIdle == ~gpuBusy /\ pendingCopy = "none"

\* Cleanup, lines 388-390: vkDeviceWaitIdle.
CleanupWaitIdle ==
    /\ pcUI = "vkDeviceWaitIdle"
    /\ DeviceIdle
    /\ cleanupLog' = Append(cleanupLog, "vkDeviceWaitIdle")
    /\ pcUI' = "DestroyTexture"
    /\ UNCHANGED <<storeVars, engineVars, clientVars, localVars, textureVars,
                   gpuVars, uiVars, syncVars, initLog, exitCode, exit_code,
                   viewVars, frameLog, memVars, mouseVars>>

\* Cleanup, lines 393-402: destroy the sampler, the view and the image, each
\* if its handle is not null; vkFreeMemory is called with m_CefTextureMemory.
\* The members keep the destroyed handles.
CleanupTexture ==
    /\ pcUI = "DestroyTexture"
    /\ liveSamplers' = DestroyHandle(liveSamplers, m_CefTextureSampler)
    /\ liveViews' = DestroyHandle(liveViews, m_CefTextureView)
    /\ liveImages' = DestroyHandle(liveImages, m_CefTextureImage)
    /\ liveMemory' = IF m_CefTextureImage # NULL
                     THEN DestroyHandle(liveMemory, m_CefTextureMemory)
                     ELSE liveMemory
    /\ imageData' = << >>
    /\ imageLayout' = "NONE"
    /\ imageExtent' = NoDims
    /\ cleanupLog' = Append(cleanupLog, "DestroyTexture")
    /\ pcUI' = "ImGuiShutdown"
    /\ UNCHANGED <<storeVars, engineVars, clientVars, localVars,
                   m_CefTextureImage, m_CefTextureView, m_CefTextureSampler,
                   m_CefDescriptorSet, m_BrowserWidth, m_BrowserHeight,
                   nextHandle, dsView, dsImage, frameImage, gpuBusy, busyImage,
                   pendingCopy, uiVars, syncVars, initLog, exitCode, exit_code,
                   viewVars, frameLog, mouseVars>>

\* A step of Cleanup that touches nothing the model holds.
CleanupStep(step, next) ==
    /\ pcUI = step
    /\ cleanupLog' = Append(cleanupLog, step)
    /\ pcUI' = next
    /\ UNCHANGED <<storeVars, engineVars, clientVars, localVars, textureVars,
                   gpuVars, uiVars, syncVars, initLog, exitCode, exit_code,
                   viewVars, frameLog, memVars, mouseVars>>

\* Lines 404-407: ImGui_ImplVulkan_Shutdown, ImGui_ImplGlfw_Shutdown,
\* DestroyContext.
CleanupImGui == CleanupStep("ImGuiShutdown", "RendererCleanup")

\* Lines 409-412: m_Renderer->Cleanup().
CleanupRenderer == CleanupStep("RendererCleanup", "DestroyWindow")

\* Lines 414-418: glfwDestroyWindow, glfwTerminate.
CleanupWindow == CleanupStep("DestroyWindow", "ReleaseReferences")

\* Lines 420-423: m_Client, m_RenderHandler and m_CefApp are set to nullptr.
\* The engine keeps its own references while a browser is open.  Nothing
\* asks a browser to close.
CleanupReleaseReferences == CleanupStep("ReleaseReferences", "CefShutdown")

\* Line 424: CefShutdown(); Cleanup returns and main returns 0.
CefShutdown ==
    /\ pcUI = "CefShutdown"
    /\ cleanupLog' = Append(cleanupLog, "CefShutdown")
    /\ exitCode' = 0
    /\ pcUI' = "exited"
    /\ UNCHANGED <<storeVars, engineVars, clientVars, localVars, textureVars,
                   gpuVars, uiVars, syncVars, initLog, exit_code,
                   viewVars, frameLog, memVars, mouseVars>>

\* Application::Cleanup, step by step.
Cleanup ==
    \/ CleanupWaitIdle
    \/ CleanupTexture
    \/ CleanupImGui
    \/ CleanupRenderer
    \/ CleanupWindow
    \/ CleanupReleaseReferences
    \/ CefShutdown

\* The state when main starts: nothing is initialized, the render handler
\* does not exist yet.
Init ==
    /\ m_Width = 0
    /\ m_Height = 0
    /\ m_IsDirty = FALSE
    /\ m_Buffer = << >>
    /\ m_Mutex = "free"
    /\ pcEngine = "idle"
    /\ paintArg = NoFrame
    /\ paintRects = << >>
    /\ paints = 0
    /\ m_Browser = NoBrowser
    /\ browserState = [b \in Browsers |-> "none"]
    /\ pcUI = "InitializeCEF"
    /\ textureData = << >>
    /\ width = 0
    /\ height = 0
    /\ m_CefTextureImage = NULL
    /\ m_CefTextureView = NULL
    /\ m_CefTextureSampler = NULL
    /\ m_CefDescriptorSet = NULL
    /\ m_BrowserWidth = BrowserWidth0
    /\ m_BrowserHeight = BrowserHeight0
    /\ liveImages = {}
    /\ liveViews = {}
    /\ nextHandle = 0
    /\ dsView = NULL
    /\ dsImage = NULL
    /\ frameImage = NULL
    /\ gpuBusy = FALSE
    /\ busyImage = NULL
    /\ imageData = << >>
    /\ imageLayout = "NONE"
    /\ pendingCopy = "none"
    /\ initLog = << >>
    /\ exitCode = 0
    /\ frameLog = << >>
    /\ exit_code = -1
    /\ cleanupLog = << >>
    /\ liveMemory = {}
    /\ liveSamplers = {}
    /\ imageExtent = NoDims
    /\ mouseDown = NoButtons
    /\ pressSent = NoButtons
    /\ requested = NoDims
    /\ viewRect = NoRect
    /\ uiInput = NoInput
    /\ sent = << >>
    /\ shown = "none"
    /\ painted = NoFrame
    /\ dimsChanged = FALSE
    /\ lastNotif = <<"none", NoBrowser>>
    /\ recreations = 0
    /\ inplaceUpdates = 0
    /\ lastSync = NoDims
    /\ gpuFailed = FALSE

\* The engine thread inside OnPaint.
OnPaint ==
    \/ \E f \in PaintFrames, r \in DirtyRectLists : OnPaintLock(f, r)
    \/ OnPaintResize
    \/ OnPaintCopy
    \/ OnPaintSetDirty
    \/ OnPaintReturn

\* The GPU executing what was submitted to the graphics queue.
Gpu ==
    \/ GpuComplete
    \/ GpuBarrierToTransfer
    \/ GpuCopy
    \/ GpuBarrierToShaderRead

Next ==
    \/ \E c \in CefExecuteProcessResults, ok \in BOOLEAN : InitializeCEF(c, ok)
    \/ \E ok \in BOOLEAN : InitializeWindow(ok)
    \/ \E ok \in BOOLEAN : InitializeVulkan(ok)
    \/ InitializeImGui
    \/ CreateBrowser
    \/ OnPaint
    \/ OnAfterCreated("main")
    \/ OnBeforeClose("main")
    \/ RunLoopHead
    \/ PumpDone
    \/ UpdateCheckDirty
    \/ GetTextureDataLock
    \/ GetTextureDataCopy
    \/ GetTextureDataReturn
    \/ \E o \in GpuOutcomes : SyncRecreate(o)
    \/ SyncUpdateSubmit
    \/ SyncUpdate
    \/ ClearDirty
    \/ BeginFrame
    \/ \E in \in UiInputs : RenderUI(in)
    \/ EndFrame
    \/ Gpu

Spec == Init /\ [][Next]_vars

\* The same application with a quiet user, a GPU that never fails and a
\* browser that stays open, while the engine asks for the view rectangle and
\* the viewport is resized between any two steps.
NextStore ==
    \/ InitializeCEF(-1, TRUE)
    \/ InitializeWindow(TRUE)
    \/ InitializeVulkan(TRUE)
    \/ InitializeImGui
    \/ CreateBrowser
    \/ OnPaint
    \/ GetViewRect
    \/ \E d \in Dims : Resize(d[1], d[2])
    \/ RunLoopHead
    \/ PumpDone
    \/ UpdateCheckDirty
    \/ GetTextureDataLock
    \/ GetTextureDataCopy
    \/ GetTextureDataReturn
    \/ SyncRecreate(GpuSucceeds)
    \/ SyncUpdateSubmit
    \/ SyncUpdate
    \/ ClearDirty
    \/ BeginFrame
    \/ RenderUI(NoInput)
    \/ EndFrame
    \/ Gpu

SpecStore == Init /\ [][NextStore]_vars

\* Initialize in the browser process with every step succeeding.
InitializeOk ==
    \/ InitializeCEF(-1, TRUE)
    \/ InitializeWindow(TRUE)
    \/ InitializeVulkan(TRUE)
    \/ InitializeImGui
    \/ CreateBrowser

\* UpdateCefTexture with GPU creation results o.
UpdateCefTexture(o) ==
    \/ UpdateCheckDirty
    \/ GetTextureDataLock
    \/ GetTextureDataCopy
    \/ GetTextureDataReturn
    \/ SyncRecreate(o)
    \/ SyncUpdateSubmit
    \/ SyncUpdate
    \/ ClearDirty

\* The application from main to exit with a working GPU: the window is
\* closed at the head of some iteration and Cleanup runs.  The user does
\* nothing else.
NextShutdown ==
    \/ InitializeOk
    \/ OnPaint
    \/ OnAfterCreated("main")
    \/ OnBeforeClose("main")
    \/ RunLoopHead
    \/ RunLoopExit
    \/ PumpDone
    \/ UpdateCefTexture(GpuSucceeds)
    \/ BeginFrame
    \/ RenderUI(NoInput)
    \/ EndFrame
    \/ Gpu
    \/ Cleanup

SpecShutdown == Init /\ [][NextShutdown]_vars

\* The application with a working GPU and the user's pointer and mouse
\* buttons given frame by frame.
NextInput ==
    \/ InitializeOk
    \/ OnPaint
    \/ OnAfterCreated("main")
    \/ OnBeforeClose("main")
    \/ RunLoopHead
    \/ PumpDone
    \/ UpdateCefTexture(GpuSucceeds)
    \/ BeginFrame
    \/ \E in \in MouseInputs : RenderUI(in)
    \/ EndFrame
    \/ Gpu

SpecInput == Init /\ [][NextInput]_vars

\* The life-span notifications of a main browser and a popup created through
\* the same client, with the frame loop running and nothing painted.
NextLifeSpan ==
    \/ InitializeOk
    \/ \E b \in Browsers : OnAfterCreated(b)
    \/ \E b \in Browsers : OnBeforeClose(b)
    \/ RunLoopHead
    \/ PumpDone
    \/ UpdateCheckDirty
    \/ BeginFrame
    \/ \E in \in UiInputs : RenderUI(in)
    \/ EndFrame
    \/ GpuComplete

SpecLifeSpan == Init /\ [][NextLifeSpan]_vars

\* ================================================================ claims
\* The RGBA bytes a BGRA buffer must convert to, by position: bytes 1 and 3
\* of each pixel stay, bytes 0 and 2 trade places.
ExpectedRGBA(in) ==
    [i \in 1..Len(in) |->
        LET k == i - 1
        IN CASE k % 4 = 0 -> in[i + 2]
             [] k % 4 = 2 -> in[i - 2]
             [] OTHER -> in[i]]

\* GetTextureData has filled its outputs and still holds the lock.
GetTextureDataDone == pcUI = "GetTextureDataReturn"
ExampleBGRA == <<10, 20, 30, 40, 50, 60, 70, 80>>
ExampleRGBA == <<30, 20, 10, 40, 70, 60, 50, 80>>

\* C1: OnPaint(buffer, w, h) followed by GetTextureData returns w, h and
\* w*h*4 bytes in which bytes 1 and 3 of every pixel are the input's and
\* bytes 0 and 2 are swapped, whatever the dirty-rectangle list was; the
\* 2x1 frame [10..80] comes back as [30,20,10,40,70,60,50,80].
C1_RoundTrip ==
    (GetTextureDataDone /\ painted # NoFrame) =>
        /\ width = painted.width
        /\ height = painted.height
        /\ Len(textureData) = painted.width * painted.height * BytesPerPixel
        /\ textureData = ExpectedRGBA(painted.pixels)
        /\ painted.pixels = ExampleBGRA => textureData = ExampleRGBA
C1_Witness ==
    /\ GetTextureDataDone
    /\ painted.pixels = ExampleBGRA
    /\ textureData = ExampleRGBA
    /\ width = 2 /\ height = 1

OnPaintReturns == pcEngine = "flagged" /\ pcEngine' = "idle"
ClearDirtyReturns == pcUI = "ClearDirty" /\ pcUI' = "BeginFrame"

\* C2: the dirty flag is true right after every OnPaint returns and false
\* right after every ClearDirty returns, under every interleaving of the
\* engine thread with the UI thread.
C2_DirtyFlag ==
    [][ /\ OnPaintReturns => m_IsDirty'
        /\ ClearDirtyReturns => ~m_IsDirty' ]_vars

\* The state the constructor leaves: a zeroed buffer of the initial size.
InitialFrame ==
    [width |-> BrowserWidth0, height |-> BrowserHeight0,
     pixels |-> [i \in 1..(BrowserWidth0 * BrowserHeight0 * BytesPerPixel) |-> 0]]

\* UpdateCefTexture holds the result of GetTextureData.
HoldsTextureData ==
    pcUI \in {"GetTextureDataReturn", "Sync", "vkQueueWaitIdle", "ClearDirty"}

\* C3: what GetTextureData returned is the conversion of one whole frame
\* (one OnPaint's, or the initial buffer) with that frame's dimensions, and
\* the dimensions agree with the length of the data.
C3_WholeFrame ==
    HoldsTextureData =>
        /\ Len(textureData) = width * height * BytesPerPixel
        /\ \E f \in PaintFrames \cup {InitialFrame} :
              /\ width = f.width
              /\ height = f.height
              /\ textureData = ExpectedRGBA(f.pixels)
\* GetTextureData ran between two OnPaint calls of different frames.
C3_Witness ==
    /\ pcUI = "Sync"
    /\ pcEngine = "flagged"
    /\ paints = 2
    /\ painted # NoFrame
    /\ textureData # ExpectedRGBA(painted.pixels)

SyncStep == pcUI \in {"Sync", "vkQueueWaitIdle"} /\ pcUI' = "ClearDirty"
ImageReplaced == m_CefTextureImage' # m_CefTextureImage

\* C4: while GPU creation succeeds, the first upload creates the texture
\* (one recreation); a later upload recreates image and view exactly once if
\* its frame's size differs from the previously uploaded frame's, and
\* otherwise updates in place with no recreation.
C4_Recreation ==
    [][ (SyncStep /\ ~gpuFailed') =>
          IF lastSync = NoDims \/ <<width, height>> # lastSync
          THEN /\ recreations' = recreations + 1
               /\ inplaceUpdates' = inplaceUpdates
               /\ ImageReplaced
               /\ m_CefTextureView' # m_CefTextureView
               /\ m_CefTextureImage' \in liveImages'
               /\ m_CefTextureView' \in liveViews'
          ELSE /\ recreations' = recreations
               /\ inplaceUpdates' = inplaceUpdates + 1
               /\ UNCHANGED <<m_CefTextureImage, m_CefTextureView, liveImages,
                              liveViews>> ]_vars
\* Two uploads of different sizes: two recreations, no in-place update.
C4_Witness ==
    /\ recreations = 2
    /\ inplaceUpdates = 0
    /\ ~gpuFailed
    /\ pcUI = "ClearDirty"
    /\ lastSync = <<m_BrowserWidth, m_BrowserHeight>>

\* C5: GetBrowser() is empty before OnAfterCreated and after OnBeforeClose,
\* and between the two it is the handle that OnAfterCreated was given.
C5_BrowserHandle ==
    /\ browserState["main"] = "none" => (m_Browser = NoBrowser /\ lastNotif[1] = "none")
    /\ browserState["main"] = "closed" => m_Browser = NoBrowser
    /\ browserState["main"] = "open" =>
          (lastNotif[1] = "created" /\ m_Browser = lastNotif[2])
C5_Witness ==
    /\ browserState["main"] = "closed"
    /\ lastNotif = <<"closed", "main">>
    /\ m_Browser = NoBrowser

\* A creation in this upload returned no handle.
CreationFailed ==
    SyncStep /\ (\/ m_CefTextureImage' = NULL
                 \/ m_CefTextureView' = NULL
                 \/ m_CefTextureSampler' = NULL)

\* C6: if image, view or sampler creation fails in UpdateCefTexture, the
\* texture state is left exactly as it was, and the UI afterwards shows the
\* previous texture or the placeholder without using a null or destroyed
\* handle.
C6_FailureKeepsTexture ==
    [][ /\ CreationFailed =>
              UNCHANGED <<m_CefTextureImage, m_CefTextureView, m_CefDescriptorSet,
                          m_BrowserWidth, m_BrowserHeight, liveImages, liveViews>>
        /\ shown' = "image" => (dsView \in liveViews /\ dsImage \in liveImages) ]_vars

\* This step destroys the current texture image.
ImageDestroyed ==
    /\ m_CefTextureImage \in liveImages
    /\ m_CefTextureImage \notin liveImages'

\* C7: when UpdateCefTexture destroys the texture image to recreate it, no
\* submitted GPU work that samples the image is still pending.
C7_DestroyAfterGpuDone ==
    [][ ImageDestroyed => ~(gpuBusy /\ busyImage = m_CefTextureImage) ]_vars

\* C8: at most one texture image and one texture view are live.
C8_OneTexture ==
    /\ Cardinality(liveImages) <= 1
    /\ Cardinality(liveViews) <= 1
C8_Witness ==
    /\ recreations = 2
    /\ Cardinality(liveImages) = 1
    /\ Cardinality(liveViews) = 1
    /\ m_CefTextureImage \in liveImages

\* C9: after an OnPaint whose size differs from the stored one, the next
\* GetTextureData returns the new width and height and exactly
\* newWidth*newHeight*4 bytes.
C9_NewSize ==
    (GetTextureDataDone /\ dimsChanged) =>
        /\ width = painted.width
        /\ height = painted.height
        /\ Len(textureData) = painted.width * painted.height * BytesPerPixel
\* The second OnPaint changed the size that the first one had set.
C9_Witness ==
    /\ GetTextureDataDone
    /\ dimsChanged
    /\ paints = 2
    /\ <<width, height>> = <<painted.width, painted.height>>
    /\ <<width, height>> # <<BrowserWidth0, BrowserHeight0>>

\* C10: a frame in which GetBrowser() is empty issues no navigation command
\* and no input event, and every call that is issued has a browser.
C10_NoCallWithoutBrowser ==
    pcUI = "EndFrame" =>
        /\ m_Browser = NoBrowser => sent = << >>
        /\ \A i \in DOMAIN sent :
              sent[i].browser # NoBrowser /\ sent[i].browser = m_Browser
\* A navigation button is clicked after the browser has closed.
C10_Witness ==
    /\ pcUI = "EndFrame"
    /\ browserState["main"] = "closed"
    /\ uiInput.kind = "button"
    /\ sent = << >>

\* A step of the engine thread, or of the UI thread, that reads or writes the
\* store's buffer, width, height or dirty flag.
EngineStoreAccess == pcEngine \in {"locked", "resized", "copied"} /\ pcEngine' # pcEngine
UiStoreAccess == pcUI \in {"IsDirty", "GetTextureDataCopy", "ClearDirty"} /\ pcUI' # pcUI

\* C11: every read or write of the store's buffer, width, height and dirty
\* flag is made by a thread that holds m_Mutex at that moment.
C11_AccessUnderMutex ==
    [][ /\ EngineStoreAccess => m_Mutex = "engine"
        /\ UiStoreAccess => m_Mutex = "ui" ]_vars

\* C12: GetViewRect returns (0, 0, w, h) for the viewport last requested, by
\* the constructor or by the latest Resize(w, h), whatever OnPaint,
\* GetTextureData and ClearDirty calls ran in between.
C12_ViewRectIsRequested ==
    [][ viewRect' # viewRect =>
            viewRect' = <<0, 0, requested[1], requested[2]>> ]_vars

\* The names of the steps that have run.
StepsRun == { initLog[i].step : i \in DOMAIN initLog }

\* C13: initialization runs CEF, window, Vulkan, ImGui in that order; at the
\* first step that reports failure nothing later runs, no browser is created,
\* the frame loop is not entered and the process exits with a non-zero status.
C13_InitFailureStops ==
    /\ Len(initLog) <= Len(InitOrder)
    /\ \A i \in DOMAIN initLog : initLog[i].step = InitOrder[i]
    /\ \A i \in DOMAIN initLog :
          initLog[i].result = "false" =>
              /\ i = Len(initLog)
              /\ pcUI = "exited"
              /\ exitCode # 0
              /\ "CreateBrowser" \notin StepsRun
              /\ browserState = [b \in Browsers |-> "none"]
              /\ m_Browser = NoBrowser
              /\ frameLog = << >>
              /\ paints = 0
\* Vulkan initialization failed after CEF and the window came up.
C13_Witness ==
    /\ Len(initLog) = 3
    /\ initLog[3] = [step |-> "InitializeVulkan", result |-> "false"]
    /\ initLog[1].result = "true"
    /\ pcUI = "exited"
    /\ exitCode = MainFailureStatus

\* The calls of one loop iteration, in order.
RunOrder == <<"CefDoMessageLoopWork", "UpdateCefTexture", "BeginFrame",
              "RenderUI", "EndFrame">>
IsPrefix(s, t) == Len(s) <= Len(t) /\ \A i \in DOMAIN s : s[i] = t[i]

\* C14: every iteration of Run calls the pump exactly once and runs pump,
\* UpdateCefTexture, BeginFrame, RenderUI, EndFrame in that order.
C14_RunOrder ==
    /\ IsPrefix(frameLog, RunOrder)
    /\ pcUI = "glfwPollEvents" => frameLog \in {<< >>, RunOrder}
    /\ pcUI = "CefDoMessageLoopWork" => frameLog = << >>
    /\ pcUI \in {"RenderUI", "EndFrame"} =>
          Cardinality({i \in DOMAIN frameLog : frameLog[i] = "CefDoMessageLoopWork"}) = 1
\* An iteration that uploaded a frame has just ended.
C14_Witness ==
    /\ pcUI = "glfwPollEvents"
    /\ frameLog = RunOrder
    /\ recreations = 1
    /\ shown = "none"

\* The texture image exists and holds the conversion of frame f.
TextureHolds(f) ==
    /\ m_CefTextureImage # NULL
    /\ m_CefTextureImage \in liveImages
    /\ imageData = ExpectedRGBA(f.pixels)

\* C15: with GPU operations succeeding, no interleaving leaves the latest
\* painted frame out of the texture while the dirty flag is false (from such
\* a state no later iteration uploads it, because UpdateCefTexture returns at
\* the flag).
C15_LatestFrameUploaded ==
    (pcEngine = "idle" /\ painted # NoFrame /\ ~m_IsDirty /\ ~gpuFailed) =>
        TextureHolds(painted)

\* C16: UpdateCefTexture reaches ClearDirty only with the frame that
\* GetTextureData returned in this call uploaded into the texture image.
C16_ClearedAfterUpload ==
    pcUI = "ClearDirty" =>
        /\ m_CefTextureImage # NULL
        /\ m_CefTextureImage \in liveImages
        /\ imageData = textureData

\* UpdateCefTexture is called with the flag false.
CleanCall == pcUI = "IsDirty" /\ ~m_IsDirty /\ pcUI' # pcUI

\* C17: an UpdateCefTexture that finds IsDirty() false returns at once:
\* texture members, recorded size, GPU state and the store (flag, buffer,
\* mutex) are unchanged and no frame data was fetched.
C17_CleanCallChangesNothing ==
    [][ CleanCall =>
          /\ pcUI' = "BeginFrame"
          /\ UNCHANGED <<textureVars, gpuVars, storeVars, localVars, syncVars>>
          /\ ~m_IsDirty' ]_vars
\* A frame begins with the texture of an earlier iteration still sampled by
\* the frame in flight: this iteration's UpdateCefTexture returned at the flag.
C17_Witness ==
    /\ pcUI = "BeginFrame"
    /\ m_CefTextureImage # NULL
    /\ gpuBusy
    /\ ~m_IsDirty
    /\ recreations = 1
    /\ frameLog = <<"CefDoMessageLoopWork", "UpdateCefTexture">>

GetTextureDataStep ==
    /\ pcUI \in {"GetTextureData", "GetTextureDataCopy", "GetTextureDataReturn"}
    /\ pcUI' # pcUI

\* C18: GetTextureData leaves the dirty flag, the buffer and the stored
\* width/height as they were, and the flag goes from true to false only in
\* ClearDirty.
C18_ReadLeavesStore ==
    [][ /\ GetTextureDataStep => UNCHANGED <<m_IsDirty, m_Buffer, m_Width, m_Height>>
        /\ (m_IsDirty /\ ~m_IsDirty') => ClearDirtyReturns ]_vars
\* GetTextureData has returned a painted frame and the flag is still set.
C18_Witness ==
    /\ pcUI = "Sync"
    /\ m_IsDirty
    /\ painted # NoFrame
    /\ textureData = ExpectedRGBA(m_Buffer)
    /\ <<width, height>> = <<m_Width, m_Height>>

\* Where the UI thread is when it makes a GPU call: creating, destroying or
\* updating the texture, waiting for the queue or a fence, submitting.
GpuCallPcs == {"InitializeVulkan", "Sync", "vkQueueWaitIdle", "BeginFrame", "EndFrame"}

\* C19: the UI thread holds the store's mutex only inside GetTextureData,
\* never while it makes a GPU call.
C19_NoLockAcrossGpu ==
    /\ pcUI \in GpuCallPcs => m_Mutex # "ui"
    /\ m_Mutex = "ui" => pcUI \in {"GetTextureDataCopy", "GetTextureDataReturn"}
\* The engine thread is inside OnPaint while the UI thread waits for the GPU.
C19_Witness ==
    /\ pcUI = "Sync"
    /\ m_Mutex = "engine"
    /\ pcEngine = "copied"

\* A frame that samples the current texture image is submitted and unfinished.
FrameSamplesTexture ==
    gpuBusy /\ busyImage # NULL /\ busyImage = m_CefTextureImage

\* C20: in an in-place update the copy runs after every earlier frame's
\* read of the image and with the image in TRANSFER_DST; the image is back in
\* SHADER_READ_ONLY and the queue idle before UpdateTextureImage returns, so
\* a frame that samples the image finds it in SHADER_READ_ONLY and not being
\* written.
C20_CopyOrdered ==
    /\ pendingCopy = "barrierToTransfer" => imageLayout = "SHADER_READ_ONLY"
    /\ pendingCopy \in {"copy", "barrierToShaderRead"} =>
          (imageLayout = "TRANSFER_DST" /\ ~FrameSamplesTexture)
    /\ pendingCopy # "none" => pcUI = "vkQueueWaitIdle"
    /\ FrameSamplesTexture =>
          (imageLayout = "SHADER_READ_ONLY" /\ pendingCopy \in {"none", "barrierToTransfer"})
    /\ (pcUI = "EndFrame" /\ frameImage # NULL /\ frameImage = m_CefTextureImage) =>
          (imageLayout = "SHADER_READ_ONLY" /\ pendingCopy = "none")
\* The update's first barrier waits behind a frame that samples the image.
C20_Witness ==
    /\ pendingCopy = "barrierToTransfer"
    /\ FrameSamplesTexture
    /\ pcUI = "vkQueueWaitIdle"

\* C21: Cleanup takes its steps in one order: vkDeviceWaitIdle, then the
\* texture's sampler, view and image, then ImGui, the renderer, the window,
\* the release of the client and render-handler references, and CefShutdown
\* last; the texture objects are destroyed only after the wait has returned,
\* with no GPU work left.
C21_CleanupOrder ==
    [][ /\ IsPrefix(cleanupLog', CleanupOrder)
        /\ (pcUI = "DestroyTexture" /\ pcUI' # pcUI) =>
              /\ cleanupLog = <<"vkDeviceWaitIdle">>
              /\ ~gpuBusy /\ pendingCopy = "none"
              /\ liveSamplers' = {} /\ liveViews' = {} /\ liveImages' = {}
        /\ (cleanupLog # << >> /\ pcUI # "DestroyTexture") =>
              UNCHANGED <<liveSamplers, liveViews, liveImages>>
        /\ pcUI' = "exited" =>
              (cleanupLog' = CleanupOrder /\ cleanupLog'[Len(cleanupLog')] = "CefShutdown")
      ]_vars
\* The process has exited through Cleanup after a texture was created and a
\* frame that samples it was submitted.
C21_Witness ==
    /\ pcUI = "exited"
    /\ cleanupLog = CleanupOrder
    /\ recreations >= 1
    /\ m_CefTextureImage # NULL
    /\ m_CefTextureImage \notin liveImages
    /\ "EndFrame" \in {frameLog[i] : i \in DOMAIN frameLog}

\* The number of calls named c that RenderUI made in the frame.
CallCount(calls, c) == Cardinality({i \in DOMAIN calls : calls[i].call = c})

\* C22: in a frame where the image is hovered and a browser handle exists,
\* the browser gets exactly one mouse-move, per button exactly one press iff
\* the button went down in this frame and exactly one release iff it went up
\* in this frame, and no click for a button that is merely held; a frame in
\* which the image is not hovered sends the browser nothing.
C22_OneEventPerTransition ==
    [][ (pcUI = "RenderUI" /\ pcUI' = "EndFrame" /\ uiInput'.kind = "mouse") =>
          LET in == uiInput'
              One(b) == IF b THEN 1 ELSE 0
          IN IF in.hovered /\ m_CefDescriptorSet # NULL /\ m_Browser # NoBrowser
             THEN /\ CallCount(sent', "SendMouseMoveEvent") = 1
                  /\ CallCount(sent', "SendMouseClickEvent(MBT_LEFT,down)")
                        = One(in.left /\ ~mouseDown.left)
                  /\ CallCount(sent', "SendMouseClickEvent(MBT_LEFT,up)")
                        = One(mouseDown.left /\ ~in.left)
                  /\ CallCount(sent', "SendMouseClickEvent(MBT_RIGHT,down)")
                        = One(in.right /\ ~mouseDown.right)
                  /\ CallCount(sent', "SendMouseClickEvent(MBT_RIGHT,up)")
                        = One(mouseDown.right /\ ~in.right)
             ELSE sent' = << >>
      ]_vars
\* A hovered frame in which the left button is held from the frame before:
\* the browser got its press then and gets only the move now.
C22_Witness ==
    /\ pcUI = "EndFrame"
    /\ uiInput.kind = "mouse"
    /\ uiInput.hovered /\ uiInput.left /\ ~uiInput.right
    /\ pressSent.left
    /\ sent = <<[call |-> "SendMouseMoveEvent", browser |-> "main"]>>

\* The calls of RenderUI's input block.
InputCallNames ==
    {"SendMouseMoveEvent", "SendMouseWheelEvent", "SendKeyEvent", "SetFocus",
     "SendMouseClickEvent(MBT_LEFT,down)", "SendMouseClickEvent(MBT_LEFT,up)",
     "SendMouseClickEvent(MBT_RIGHT,down)", "SendMouseClickEvent(MBT_RIGHT,up)"}

\* C23: RenderUI draws the browser image exactly when the descriptor set is
\* non-null and the placeholder otherwise; in every frame before the first
\* successful texture creation the placeholder is shown and no input is
\* forwarded, with or without a browser handle.
C23_PlaceholderUntilTexture ==
    pcUI = "EndFrame" =>
       /\ shown = "image" <=> m_CefDescriptorSet # NULL
       /\ shown = "placeholder" <=> m_CefDescriptorSet = NULL
       /\ (recreations = 0 \/ (recreations = 1 /\ m_CefTextureImage = NULL)) =>
             /\ shown = "placeholder"
             /\ \A i \in DOMAIN sent : sent[i].call \notin InputCallNames

\* C24: when CefExecuteProcess returns a value >= 0 the process exits with
\* exactly that value and takes no later step (no CefInitialize, window,
\* browser or frame loop); only a negative value goes on to initialise the
\* browser process.
C24_SubprocessExits ==
    initLog # << >> =>
       IF exit_code >= 0
       THEN /\ initLog = <<[step |-> "InitializeCEF", result |-> "exit"]>>
            /\ pcUI = "exited"
            /\ exitCode = exit_code
            /\ ~HandlerCreated
            /\ frameLog = << >>
            /\ cleanupLog = << >>
            /\ \A b \in Browsers : browserState[b] = "none"
       ELSE initLog[1] \in [step : {"InitializeCEF"}, result : {"true", "false"}]
\* CefExecuteProcess returned 1 in a sub-process and the process exited with 1.
C24_Witness ==
    /\ exit_code = 1
    /\ pcUI = "exited"
    /\ exitCode = 1
    /\ Len(initLog) = 1

\* C25: in every state of the frame store, after the constructor and any
\* sequence of OnPaint, Resize, GetViewRect, GetTextureData and ClearDirty,
\* the buffer holds exactly m_Width * m_Height * 4 bytes.
C25_BufferMatchesDimensions ==
    Len(m_Buffer) = m_Width * m_Height * BytesPerPixel
\* Resize was called with 1x2 after a 2x1 frame was painted: the store has
\* the requested dimensions and a buffer of 8 bytes.
C25_Witness ==
    /\ requested = <<1, 2>>
    /\ <<m_Width, m_Height>> = <<1, 2>>
    /\ painted # NoFrame
    /\ <<painted.width, painted.height>> = <<2, 1>>
    /\ Len(m_Buffer) = 8

\* C26: whenever the texture image exists its extent is (m_BrowserWidth,
\* m_BrowserHeight), and UpdateTextureImage copies with a width and height
\* equal to the extent the image was created with.
C26_ExtentMatches ==
    /\ m_CefTextureImage \in liveImages =>
          imageExtent = <<m_BrowserWidth, m_BrowserHeight>>
    /\ pcUI = "vkQueueWaitIdle" =>
          /\ m_CefTextureImage \in liveImages
          /\ <<width, height>> = imageExtent
          /\ Len(textureData) = imageExtent[1] * imageExtent[2] * BytesPerPixel
\* An in-place update of a 1x2 image has copied its data.
C26_Witness ==
    /\ pcUI = "vkQueueWaitIdle"
    /\ pendingCopy = "barrierToShaderRead"
    /\ imageExtent = <<1, 2>>
    /\ imageData = textureData

\* C27: the device memory of a texture image is freed when the image is
\* destroyed, on recreation and in Cleanup: the allocations outstanding never
\* exceed the live images (at most one), and none is left after Cleanup.
C27_MemoryFreedWithImage ==
    /\ Cardinality(liveMemory) <= Cardinality(liveImages)
    /\ Cardinality(liveImages) <= 1
    /\ (pcUI = "exited" /\ cleanupLog # << >>) => liveMemory = {}

\* C28: for any sequence of OnAfterCreated and OnBeforeClose, popups through
\* the same client included, the handle GetBrowser returns is non-empty
\* exactly when a created browser is not yet closed, and it refers to an
\* open browser.
C28_HandleTracksOpenBrowsers ==
    /\ m_Browser # NoBrowser <=> \E b \in Browsers : browserState[b] = "open"
    /\ m_Browser # NoBrowser => browserState[m_Browser] = "open"

\* C29: a press that was forwarded to the browser is followed by a release
\* for the same button once the user has released it, also when the pointer
\* has left the image or no browser handle is found in the frame of the
\* release: after a frame, a button the browser holds pressed is a button
\* the user holds down.
C29_ReleaseFollowsPress ==
    pcUI = "EndFrame" =>
       /\ pressSent.left => mouseDown.left
       /\ pressSent.right => mouseDown.right

\* C30: when Cleanup calls CefShutdown no browser is still open: every
\* browser that was created has been closed and its OnBeforeClose delivered.
C30_NoBrowserAtShutdown ==
    pcUI = "CefShutdown" =>
       /\ \A b \in Browsers : browserState[b] # "open"
       /\ m_Browser = NoBrowser

====
